---- MODULE Spec2Model ----
(***************************************************************************)
(* Invite attribution bot (discord-quant).  The repository holds three     *)
(* variants of the same bot:                                               *)
(*   "tracker" : src/unnamed/part_000 (new-invite rule, timeout, refresh)  *)
(*   "bot"     : src/bot.js lines 1-242 (count increase only, timeout)     *)
(*   "legacy"  : src/bot.js lines 244-453 (count increase only, returns    *)
(*               without notifying when no invite matched, no timeout)     *)
(* The model runs one variant per behaviour against a guild (the remote    *)
(* invite list and its gateway event stream) and a webhook endpoint.       *)
(***************************************************************************)
EXTENDS Integers, Sequences, FiniteSets, TLC

\* ---------------------------------------------------------------- bounds
NumCodes == 1       \* invite codes 1..NumCodes the guild may create
MaxJoins == 1       \* member-joined events (members 1..MaxJoins)
MaxPending == 1     \* gateway events not yet dispatched to the bot
AttrCodes == 2      \* codes of the ledgers and snapshots drawn for one pass
MaxUses == 2        \* highest use count of a drawn ledger or snapshot

Codes == 1..NumCodes
Members == 1..MaxJoins
\* the leave handler reads nothing of the member but its id: one leaver
Leavers == {1}
Variants == {"tracker", "bot", "legacy"}

\* `let usedInvite = null`, and a join that consumed no enumerated invite
NullCode == 0

VARIABLES
    variant,     \* which source file is running
    remoteState, \* guild: every code is "none" (not created), "live" or "gone"
    remoteUses,  \* guild: true cumulative use count of every code
    gateway,     \* guild -> bot event stream, in order
    invites,     \* the bot's Map code -> last observed uses (the ledger)
    pc,          \* join handler of member m: where it is suspended
    newInvites,  \* join handler: what `await guild.invites.fetch()` settled to
    posts,       \* join handler: POSTs made to the webhook endpoint
    notified,    \* member_join bodies POSTed, counted by their invite_code
    timerArmed,  \* join handler: setTimeout(abort) pending
    leavePc,     \* leave handler of member m
    leavePosts,  \* leave handler: POSTs made to the webhook endpoint
    refreshPc,   \* refreshInviteCache() call in flight: where it is suspended
    guildInvites,\* refreshInviteCache(): what its fetch settled to
    caller,      \* who called the invite-list fetch in flight outside a join:
                 \* "timer", "http" (POST /refresh-cache), "ready", or "none"
    env,         \* process.env: which of the settings are there
    proc,        \* the node process: "starting", "login", "running", "exit0", "exit1"
    last         \* what the bot's latest step did and logged; any later step
                 \* of the bot or of its environment resets it

vars == <<variant, remoteState, remoteUses, gateway, invites, pc, newInvites, posts,
          notified, timerArmed, leavePc, leavePosts, refreshPc,
          guildInvites, caller, env, proc, last>>

\* ------------------------------------------------------- Map operations
\* invites.set(code, uses)
MapSet(m, k, v) == [c \in (DOMAIN m) \cup {k} |-> IF c = k THEN v ELSE m[c]]

\* invites.delete(code)
MapDelete(m, k) == [c \in (DOMAIN m) \ {k} |-> m[c]]

\* invites.has(code)
MapHas(m, k) == k \in DOMAIN m

\* invites.get(code) || 0
GetOrZero(m, k) == IF k \in DOMAIN m /\ m[k] # 0 THEN m[k] ELSE 0

\* faulty UsesOrZero: invite.uses || 1
UsesOrOne(inv) == IF inv.uses # 0 THEN inv.uses ELSE 1

\* invite.uses || 0
UsesOrZero(inv) == IF inv.uses # 0 THEN inv.uses ELSE 0

EmptyMap == [c \in {} |-> 0]

\* ------------------------------------------------------ join attribution
\* faulty FirstNewIndex: the test of invites.has(code) not negated
RECURSIVE FirstKnownIndex(_, _, _)
FirstKnownIndex(snap, led, i) ==
    IF i > Len(snap) THEN 0
    ELSE IF MapHas(led, snap[i].code) THEN i
    ELSE FirstKnownIndex(snap, led, i + 1)

\* for (const [code, invite] of newInvites) { if (!invites.has(code)) ... break }
RECURSIVE FirstNewIndex(_, _, _)
FirstNewIndex(snap, led, i) ==
    IF i > Len(snap) THEN 0
    ELSE IF ~MapHas(led, snap[i].code) THEN i
    ELSE FirstNewIndex(snap, led, i + 1)

\* faulty FirstIncreaseIndex: the loop without its break, the last increase wins
LastIncreaseIndex(snap, led, i) ==
    LET up == {j \in i..Len(snap) : UsesOrZero(snap[j]) > GetOrZero(led, snap[j].code)}
    IN  IF up = {} THEN 0 ELSE CHOOSE j \in up : \A k \in up : k <= j

\* faulty FirstIncreaseIndex: currentUses >= oldUses
RECURSIVE FirstIncreaseIndexGe(_, _, _)
FirstIncreaseIndexGe(snap, led, i) ==
    IF i > Len(snap) THEN 0
    ELSE IF UsesOrZero(snap[i]) >= GetOrZero(led, snap[i].code) THEN i
    ELSE FirstIncreaseIndexGe(snap, led, i + 1)

\* for (const [code, invite] of newInvites) { if (currentUses > oldUses) ... break }
RECURSIVE FirstIncreaseIndex(_, _, _)
FirstIncreaseIndex(snap, led, i) ==
    IF i > Len(snap) THEN 0
    ELSE IF UsesOrZero(snap[i]) > GetOrZero(led, snap[i].code) THEN i
    ELSE FirstIncreaseIndex(snap, led, i + 1)

\* faulty SetAll: a count is written only when it is above the stored one
RECURSIVE SetAllMax(_, _, _)
SetAllMax(led, snap, i) ==
    IF i > Len(snap) THEN led
    ELSE SetAllMax(IF UsesOrZero(snap[i]) > GetOrZero(led, snap[i].code)
                      \/ ~MapHas(led, snap[i].code)
                   THEN MapSet(led, snap[i].code, UsesOrZero(snap[i])) ELSE led,
                   snap, i + 1)

\* faulty SetAll: the listed uses are added to the stored count
RECURSIVE SetAllAdd(_, _, _)
SetAllAdd(led, snap, i) ==
    IF i > Len(snap) THEN led
    ELSE SetAllAdd(MapSet(led, snap[i].code,
                          GetOrZero(led, snap[i].code) + UsesOrZero(snap[i])),
                   snap, i + 1)

\* newInvites.forEach(invite => invites.set(invite.code, invite.uses || 0))
RECURSIVE SetAll(_, _, _)
SetAll(led, snap, i) ==
    IF i > Len(snap) THEN led
    ELSE SetAll(MapSet(led, snap[i].code, UsesOrZero(snap[i])), snap, i + 1)

\* part_000: new-invite loop, then usage-increase loop, then cache update
AttributeTracker(led, snap) ==
    LET n    == FirstNewIndex(snap, led, 1)
        led1 == IF n # 0 THEN MapSet(led, snap[n].code, UsesOrZero(snap[n])) ELSE led
        k    == IF n # 0 THEN 0 ELSE FirstIncreaseIndex(snap, led1, 1)
        led2 == IF k # 0 THEN MapSet(led1, snap[k].code, UsesOrZero(snap[k])) ELSE led1
    IN  [used   |-> IF n # 0 THEN snap[n].code
                    ELSE IF k # 0 THEN snap[k].code ELSE NullCode,
         ledger |-> SetAll(led2, snap, 1)]

\* bot.js (both copies): usage-increase loop only, then cache update
AttributeBot(led, snap) ==
    LET k    == FirstIncreaseIndex(snap, led, 1)
        led1 == IF k # 0 THEN MapSet(led, snap[k].code, UsesOrZero(snap[k])) ELSE led
    IN  [used   |-> IF k # 0 THEN snap[k].code ELSE NullCode,
         ledger |-> SetAll(led1, snap, 1)]

\* faulty Attribute: a code the ledger holds and the list lacks (an invite that
\* ran out of uses) is taken for the one the member used
AttributeVanished(v, led, snap) ==
    LET listed == {snap[i].code : i \in 1..Len(snap)}
        gone   == DOMAIN led \ listed
        a      == IF v = "tracker" THEN AttributeTracker(led, snap)
                  ELSE AttributeBot(led, snap)
    IN  IF gone # {}
        THEN [used |-> CHOOSE c \in gone : \A d \in gone : c <= d, ledger |-> a.ledger]
        ELSE a

Attribute(v, led, snap) ==
    IF v = "tracker" THEN AttributeTracker(led, snap) ELSE AttributeBot(led, snap)

\* ------------------------------------------------------------ the guild
RemoteLive == {c \in Codes : remoteState[c] = "live"}

\* the orders a list of the invites S can come in
Orders(S) ==
    {g \in [1..Cardinality(S) -> S] : \A i, j \in 1..Cardinality(S) : g[i] = g[j] => i = j}

\* what guild.invites.fetch() can resolve to now: the live invites with their
\* true counts, in any order
Snapshots ==
    {[i \in 1..Cardinality(RemoteLive) |-> [code |-> f[i], uses |-> remoteUses[f[i]]]] :
        f \in Orders(RemoteLive)}

FetchOk(list) == [ok |-> TRUE, list |-> list, error |-> ""]
\* the rejection of guild.invites.fetch(), error.message included
FetchFailed == [ok |-> FALSE, list |-> <<>>, error |-> "Missing Permissions"]
NoFetch == [ok |-> FALSE, list |-> <<>>, error |-> ""]

Event(t, id) == [type |-> t, id |-> id, uses |-> 0]

NoResponse == [ok |-> FALSE, body |-> "none"]
\* what the endpoint can answer: a status, then a body that can be read or not
Responses ==
    {[ok |-> FALSE, body |-> b] : b \in {"text", "unreadable"}} \cup
    {[ok |-> TRUE, body |-> b] : b \in {"success", "failure", "unreadable"}}

\* a setting process.env lacks, a header the request lacks
Undefined == "undefined"
\* the value of DISCORD_WEBHOOK_SECRET where it is set
SharedSecret == "secret"
\* every setting there
Configured == [token |-> TRUE, guildId |-> TRUE, secret |-> SharedSecret]

\* the record of a step: which handler, what it read and what it logged
Quiet ==
    [kind |-> "none", who |-> 0, before |-> EmptyMap, snap |-> <<>>, used |-> NullCode,
     sent |-> FALSE, cause |-> "none", resp |-> NoResponse, outcome |-> "none", error |-> "",
     by |-> "none", header |-> "none", answer |-> "none"]

Init ==
    /\ variant \in Variants
    /\ remoteState = [c \in Codes |-> "none"]
    /\ remoteUses = [c \in Codes |-> 0]
    /\ gateway = <<>>
    /\ invites = EmptyMap
    /\ pc = [m \in Members |-> "absent"]
    /\ newInvites = [m \in Members |-> NoFetch]
    /\ posts = [m \in Members |-> 0]
    /\ notified = [c \in Codes \cup {NullCode} |-> 0]
    /\ timerArmed = [m \in Members |-> FALSE]
    /\ leavePc = [m \in Leavers |-> "none"]
    /\ leavePosts = [m \in Leavers |-> 0]
    /\ refreshPc = "idle"
    /\ guildInvites = NoFetch
    /\ caller = "none"
    /\ env = Configured
    /\ proc = "running"
    /\ last = Quiet

\* the process is up: timers fire, requests and events are handled
Alive == proc \in {"login", "running"}

\* the client is logged in: the gateway delivers events
Connected == proc = "running"

guildVars == <<remoteState, remoteUses>>
joinVars == <<pc, newInvites, posts, notified, timerArmed>>
leaveVars == <<leavePc, leavePosts>>
refreshVars == <<refreshPc, guildInvites, caller>>
procVars == <<env, proc>>

\* somebody creates the next invite
RemoteCreateInvite(c) ==
    /\ Connected
    /\ Len(gateway) < MaxPending
    /\ remoteState[c] = "none"
    /\ \A d \in Codes : d < c => remoteState[d] # "none"
    /\ remoteState' = [remoteState EXCEPT ![c] = "live"]
    /\ gateway' = Append(gateway, Event("inviteCreate", c))
    /\ last' = Quiet
    /\ UNCHANGED <<variant, procVars, remoteUses, invites, joinVars, leaveVars, refreshVars>>

\* somebody deletes an invite
RemoteDeleteInvite(c) ==
    /\ Connected
    /\ Len(gateway) < MaxPending
    /\ remoteState[c] = "live"
    /\ remoteState' = [remoteState EXCEPT ![c] = "gone"]
    /\ gateway' = Append(gateway, Event("inviteDelete", c))
    /\ last' = Quiet
    /\ UNCHANGED <<variant, procVars, remoteUses, invites, joinVars, leaveVars, refreshVars>>

\* the next member joins, through a live invite or through none of the
\* enumerated ones (vanity URL)
RemoteJoin(m, via) ==
    /\ Connected
    /\ Len(gateway) < MaxPending
    /\ pc[m] = "absent"
    /\ \A k \in Members : k < m => pc[k] # "absent"
    /\ via \in RemoteLive \cup {NullCode}
    /\ remoteUses' = IF via = NullCode THEN remoteUses
                     ELSE [remoteUses EXCEPT ![via] = @ + 1]
    /\ gateway' = Append(gateway, Event("guildMemberAdd", m))
    /\ pc' = [pc EXCEPT ![m] = "queued"]
    /\ last' = Quiet
    /\ UNCHANGED <<variant, procVars, remoteState, invites, newInvites, posts, notified,
                   timerArmed, leaveVars, refreshVars>>

\* a member leaves, after the bot is through with their join (the two handlers
\* share no state)
RemoteLeave(m) ==
    /\ Connected
    /\ Len(gateway) < MaxPending
    /\ m \in Members /\ pc[m] = "done" /\ leavePc[m] = "none"
    /\ gateway' = Append(gateway, Event("guildMemberRemove", m))
    /\ leavePc' = [leavePc EXCEPT ![m] = "queued"]
    /\ last' = Quiet
    /\ UNCHANGED <<variant, procVars, guildVars, invites, joinVars, leavePosts, refreshVars>>

\* ------------------------------------------------------ the bot: ledger
\* client.on('inviteCreate'): invites.set(invite.code, invite.uses || 0)
InviteCreate ==
    /\ Connected
    /\ gateway # <<>> /\ Head(gateway).type = "inviteCreate"
    /\ invites' = MapSet(invites, Head(gateway).id, UsesOrZero(Head(gateway)))
    /\ gateway' = Tail(gateway)
    /\ last' = Quiet
    /\ UNCHANGED <<variant, procVars, guildVars, joinVars, leaveVars, refreshVars>>

\* client.on('inviteDelete'): invites.delete(invite.code)
InviteDelete ==
    /\ Connected
    /\ gateway # <<>> /\ Head(gateway).type = "inviteDelete"
    /\ invites' = MapDelete(invites, Head(gateway).id)
    /\ gateway' = Tail(gateway)
    /\ last' = Quiet
    /\ UNCHANGED <<variant, procVars, guildVars, joinVars, leaveVars, refreshVars>>

\* ------------------------------------------------ the bot: member joins
\* client.on('guildMemberAdd'), up to `await guild.invites.fetch()`
GuildMemberAdd ==
    /\ Connected
    /\ gateway # <<>> /\ Head(gateway).type = "guildMemberAdd"
    /\ pc' = [pc EXCEPT ![Head(gateway).id] = "awaitInvites"]
    /\ gateway' = Tail(gateway)
    /\ last' = Quiet
    /\ UNCHANGED <<variant, procVars, guildVars, invites, newInvites, posts, notified,
                   timerArmed, leaveVars, refreshVars>>

\* the guild answers the handler's invite-list request: the list as it is now,
\* or a rejection (Missing Permissions, network)
InvitesFetched(m) ==
    /\ Alive
    /\ pc[m] = "awaitInvites"
    /\ \E r \in {FetchOk(l) : l \in Snapshots} \cup {FetchFailed} :
          newInvites' = [newInvites EXCEPT ![m] = r]
    /\ pc' = [pc EXCEPT ![m] = "invitesReady"]
    /\ last' = Quiet
    /\ UNCHANGED <<variant, procVars, guildVars, gateway, invites, posts, notified,
                   timerArmed, leaveVars, refreshVars>>

\* the legacy copy returns when no invite matched; the others always notify
NotifiesUnknown(v) == v # "legacy"

\* the legacy copy has no AbortController
HasTimeout(v) == v # "legacy"

\* the catch clause a rejected webhook fetch (or body read) lands in: the inner
\* one ('timed out' / 'Failed to call webhook'), in the legacy copy the
\* handler's only one ('Error handling member join')
CatchOutcome(v, aborted) ==
    IF v = "legacy" THEN "JoinError"
    ELSE IF aborted THEN "Timeout" ELSE "TransportError"

\* if (!response.ok) {await response.text(); ... return}
\* const data = await response.json(); if (data.success) ... else ...
BodyOutcome(v, resp) ==
    IF resp.body = "unreadable" THEN CatchOutcome(v, FALSE)
    ELSE IF ~resp.ok THEN "RemoteRejected"
    ELSE IF resp.body = "success" THEN "Success"
    ELSE "RemoteLogicFailure"

\* the invite-list request rejected: the outer catch logs, nothing else runs
JoinFetchFailed(m) ==
    /\ Alive
    /\ pc[m] = "invitesReady" /\ ~newInvites[m].ok
    /\ pc' = [pc EXCEPT ![m] = "done"]
    /\ newInvites' = [newInvites EXCEPT ![m] = NoFetch]
    /\ last' = [Quiet EXCEPT !.kind = "joinFailed", !.who = m, !.before = invites,
                             !.outcome = "JoinError", !.error = newInvites[m].error]
    /\ UNCHANGED <<variant, procVars, guildVars, gateway, invites, posts, notified, timerArmed,
                   leaveVars, refreshVars>>

\* faulty JoinAttribute: the POST is made twice
JoinAttributeTwice(m) ==
    /\ Alive
    /\ pc[m] = "invitesReady" /\ newInvites[m].ok
    /\ LET a == Attribute(variant, invites, newInvites[m].list)
       IN  /\ invites' = a.ledger
           /\ pc' = [pc EXCEPT ![m] = "awaitWebhook"]
           /\ posts' = [posts EXCEPT ![m] = @ + 2]
           /\ notified' = [notified EXCEPT ![a.used] = @ + 2]
           /\ timerArmed' = [timerArmed EXCEPT ![m] = HasTimeout(variant)]
           /\ last' = [Quiet EXCEPT !.kind = "attributed", !.who = m,
                                    !.before = invites, !.snap = newInvites[m].list,
                                    !.used = a.used, !.sent = TRUE]
    /\ newInvites' = [newInvites EXCEPT ![m] = NoFetch]
    /\ UNCHANGED <<variant, procVars, guildVars, gateway, leaveVars, refreshVars>>

\* faulty JoinAttribute: the POST is awaited between the comparison and the
\* cache update, which is left to a later step
JoinAttributeThenAwait(m) ==
    /\ Alive
    /\ pc[m] = "invitesReady" /\ newInvites[m].ok
    /\ LET a == Attribute(variant, invites, newInvites[m].list)
       IN  /\ pc' = [pc EXCEPT ![m] = "awaitWebhook"]
           /\ posts' = [posts EXCEPT ![m] = @ + 1]
           /\ notified' = [notified EXCEPT ![a.used] = @ + 1]
           /\ timerArmed' = [timerArmed EXCEPT ![m] = HasTimeout(variant)]
           /\ last' = [Quiet EXCEPT !.kind = "attributed", !.who = m,
                                    !.before = invites, !.snap = newInvites[m].list,
                                    !.used = a.used, !.sent = TRUE]
    /\ newInvites' = [newInvites EXCEPT ![m] = NoFetch]
    /\ UNCHANGED <<variant, procVars, guildVars, gateway, invites, leaveVars,
                   refreshVars>>

\* the handler resumes with the list: attribution, cache update, and then the
\* POST (or the legacy copy's early return)
JoinAttribute(m) ==
    /\ Alive
    /\ pc[m] = "invitesReady" /\ newInvites[m].ok
    /\ LET a == Attribute(variant, invites, newInvites[m].list)
           notify == a.used # NullCode \/ NotifiesUnknown(variant)
       IN  /\ invites' = a.ledger
           /\ pc' = [pc EXCEPT ![m] = IF notify THEN "awaitWebhook" ELSE "done"]
           /\ posts' = [posts EXCEPT ![m] = IF notify THEN @ + 1 ELSE @]
           /\ notified' = IF notify THEN [notified EXCEPT ![a.used] = @ + 1] ELSE notified
           /\ timerArmed' = [timerArmed EXCEPT ![m] = notify /\ HasTimeout(variant)]
           /\ last' = [Quiet EXCEPT !.kind = "attributed", !.who = m,
                                    !.before = invites, !.snap = newInvites[m].list,
                                    !.used = a.used, !.sent = notify,
                                    !.outcome = IF notify THEN "none" ELSE "NoNotify"]
    /\ newInvites' = [newInvites EXCEPT ![m] = NoFetch]
    /\ UNCHANGED <<variant, procVars, guildVars, gateway, leaveVars, refreshVars>>

\* setTimeout(() => controller.abort(), 10000) fires: fetch rejects with AbortError
TimerFire(m) ==
    /\ Alive
    /\ pc[m] = "awaitWebhook" /\ timerArmed[m]
    /\ timerArmed' = [timerArmed EXCEPT ![m] = FALSE]
    /\ pc' = [pc EXCEPT ![m] = "done"]
    /\ last' = [Quiet EXCEPT !.kind = "ended", !.who = m, !.cause = "abort",
                             !.outcome = CatchOutcome(variant, TRUE)]
    /\ UNCHANGED <<variant, procVars, guildVars, gateway, invites, newInvites, posts, notified,
                   leaveVars, refreshVars>>

\* the endpoint answers with a status line: .finally(clearTimeout), and the
\* handler awaits the body (response.text() or response.json())
WebhookResponds(m) ==
    /\ Alive
    /\ pc[m] = "awaitWebhook"
    /\ timerArmed' = [timerArmed EXCEPT ![m] = FALSE]
    /\ pc' = [pc EXCEPT ![m] = "awaitBody"]
    /\ last' = Quiet
    /\ UNCHANGED <<variant, procVars, guildVars, gateway, invites, newInvites, posts, notified,
                   leaveVars, refreshVars>>

\* faulty WebhookFails: the catch clause POSTs again
WebhookFailsRetry(m) ==
    /\ Alive
    /\ pc[m] = "awaitWebhook"
    /\ posts' = [posts EXCEPT ![m] = @ + 1]
    /\ last' = Quiet
    /\ UNCHANGED <<variant, procVars, guildVars, gateway, invites, pc, newInvites, notified,
                   timerArmed, leaveVars, refreshVars>>

\* the request fails in transport (DNS, connection refused)
WebhookFails(m) ==
    /\ Alive
    /\ pc[m] = "awaitWebhook"
    /\ timerArmed' = [timerArmed EXCEPT ![m] = FALSE]
    /\ pc' = [pc EXCEPT ![m] = "done"]
    /\ last' = [Quiet EXCEPT !.kind = "ended", !.who = m, !.cause = "transport",
                             !.outcome = CatchOutcome(variant, FALSE)]
    /\ UNCHANGED <<variant, procVars, guildVars, gateway, invites, newInvites, posts, notified,
                   leaveVars, refreshVars>>

\* await response.text() / await response.json() settles, for the response r
\* the endpoint gave
BodyRead(m) ==
    /\ Alive
    /\ pc[m] = "awaitBody"
    /\ pc' = [pc EXCEPT ![m] = "done"]
    /\ \E r \in Responses :
          last' = [Quiet EXCEPT !.kind = "ended", !.who = m, !.cause = "response",
                                !.resp = r, !.outcome = BodyOutcome(variant, r)]
    /\ UNCHANGED <<variant, procVars, guildVars, gateway, invites, newInvites, posts, notified,
                   timerArmed, leaveVars, refreshVars>>

\* ----------------------------------------------- the bot: member leaves
\* client.on('guildMemberRemove'), up to `await fetch(...)` (no abort signal)
GuildMemberRemove ==
    /\ Connected
    /\ gateway # <<>> /\ Head(gateway).type = "guildMemberRemove"
    /\ leavePc' = [leavePc EXCEPT ![Head(gateway).id] = "awaitWebhook"]
    /\ leavePosts' = [leavePosts EXCEPT ![Head(gateway).id] = @ + 1]
    /\ gateway' = Tail(gateway)
    /\ last' = Quiet
    /\ UNCHANGED <<variant, procVars, guildVars, invites, joinVars, refreshVars>>

\* the endpoint answers: if (response.ok) 'Database updated' else 'Failed ...'
LeaveResponds(m) ==
    /\ Alive
    /\ leavePc[m] = "awaitWebhook"
    /\ leavePc' = [leavePc EXCEPT ![m] = "done"]
    /\ \E ok \in BOOLEAN :
          last' = [Quiet EXCEPT !.kind = "left", !.who = m, !.cause = "response",
                                !.outcome = IF ok THEN "Success" ELSE "RemoteRejected"]
    /\ UNCHANGED <<variant, procVars, guildVars, gateway, invites, joinVars, leavePosts,
                   refreshVars>>

\* the request fails in transport: catch, 'Error handling member leave'
LeaveFails(m) ==
    /\ Alive
    /\ leavePc[m] = "awaitWebhook"
    /\ leavePc' = [leavePc EXCEPT ![m] = "done"]
    /\ last' = [Quiet EXCEPT !.kind = "left", !.who = m, !.cause = "transport",
                             !.outcome = "LeaveError"]
    /\ UNCHANGED <<variant, procVars, guildVars, gateway, invites, joinVars, leavePosts,
                   refreshVars>>

\* -------------------------------------- the bot: refreshInviteCache()
\* only part_000 has it (setInterval and POST /refresh-cache)
HasRefresh(v) == v = "tracker"

\* client.guilds.cache.get(DISCORD_GUILD_ID): nothing before 'ready'; after it
\* the guild, if the bot is in it
GuildLookups == IF proc = "running" THEN BOOLEAN ELSE {FALSE}

\* refreshInviteCache() is called by the timer of setInterval: with the guild,
\* up to `await guild.invites.fetch()`; without it the function falls off its end
RefreshStart ==
    /\ HasRefresh(variant) /\ Alive /\ refreshPc = "idle"
    /\ \E guild \in GuildLookups :
          IF guild
          THEN /\ refreshPc' = "awaitInvites"
               /\ caller' = "timer"
               /\ last' = Quiet
          ELSE /\ UNCHANGED <<refreshPc, caller>>
               /\ last' = [Quiet EXCEPT !.kind = "refreshed", !.before = invites,
                                        !.by = "timer", !.cause = "noGuild",
                                        !.outcome = Undefined]
    /\ UNCHANGED <<variant, procVars, guildVars, gateway, invites, joinVars, leaveVars,
                   guildInvites>>

\* the header x-refresh-secret of a request: none, the secret, something else
Headers == {Undefined, SharedSecret, "wrong"}

\* faulty RefreshCacheRequest: no test of the header
RefreshCacheRequestOpen(h) ==
    /\ HasRefresh(variant) /\ Alive /\ refreshPc = "idle"
    /\ refreshPc' = "awaitInvites"
    /\ caller' = "http"
    /\ last' = [Quiet EXCEPT !.kind = "request", !.before = invites, !.by = "http",
                             !.header = h, !.cause = "fetching", !.outcome = "pending"]
    /\ UNCHANGED <<variant, procVars, guildVars, gateway, invites, joinVars, leaveVars,
                   guildInvites>>

\* app.post('/refresh-cache'): 401 unless the header is DISCORD_WEBHOOK_SECRET,
\* else refreshInviteCache() up to its await, or to its end without the guild:
\* .then(result => res.json(result))
RefreshCacheRequest(h) ==
    /\ HasRefresh(variant) /\ Alive
    /\ IF h # env.secret
       THEN /\ last' = [Quiet EXCEPT !.kind = "request", !.before = invites,
                                     !.by = "http", !.header = h, !.cause = "rejected",
                                     !.outcome = "Unauthorized",
                                     !.answer = "Unauthorized"]
            /\ UNCHANGED <<refreshPc, caller>>
       ELSE /\ refreshPc = "idle"
            /\ \E guild \in GuildLookups :
                  IF guild
                  THEN /\ refreshPc' = "awaitInvites"
                       /\ caller' = "http"
                       /\ last' = [Quiet EXCEPT !.kind = "request", !.before = invites,
                                                !.by = "http", !.header = h,
                                                !.cause = "fetching",
                                                !.outcome = "pending"]
                  ELSE /\ UNCHANGED <<refreshPc, caller>>
                       /\ last' = [Quiet EXCEPT !.kind = "refreshed", !.before = invites,
                                                !.by = "http", !.header = h,
                                                !.cause = "noGuild",
                                                !.outcome = Undefined,
                                                !.answer = Undefined]
    /\ UNCHANGED <<variant, procVars, guildVars, gateway, invites, joinVars, leaveVars,
                   guildInvites>>

\* the guild answers the invite-list request of refreshInviteCache() or of the
\* 'ready' handler
RefreshFetched ==
    /\ Alive /\ refreshPc = "awaitInvites"
    /\ \E f \in {FetchOk(l) : l \in Snapshots} \cup {FetchFailed} :
          guildInvites' = f
    /\ refreshPc' = "invitesReady"
    /\ last' = Quiet
    /\ UNCHANGED <<variant, procVars, guildVars, gateway, invites, joinVars, leaveVars,
                   caller>>

\* what POST /refresh-cache answers when the refresh it called returns
Answer(by, result) == IF by = "http" THEN result ELSE "none"

\* faulty RefreshApply: the cache is rebuilt from the list alone
RefreshApplyReplace ==
    /\ Alive /\ refreshPc = "invitesReady" /\ guildInvites.ok
    /\ caller \in {"timer", "http"}
    /\ invites' = SetAll(EmptyMap, guildInvites.list, 1)
    /\ refreshPc' = "idle"
    /\ guildInvites' = NoFetch
    /\ caller' = "none"
    /\ last' = [Quiet EXCEPT !.kind = "refreshed", !.before = invites, !.by = caller,
                             !.cause = "fetched", !.snap = guildInvites.list,
                             !.outcome = "success", !.answer = Answer(caller, "success")]
    /\ UNCHANGED <<variant, procVars, guildVars, gateway, joinVars, leaveVars>>

\* guildInvites.forEach(invite => invites.set(...)); return { success: true }
RefreshApply ==
    /\ Alive /\ refreshPc = "invitesReady" /\ guildInvites.ok
    /\ caller \in {"timer", "http"}
    /\ invites' = SetAll(invites, guildInvites.list, 1)
    /\ refreshPc' = "idle"
    /\ guildInvites' = NoFetch
    /\ caller' = "none"
    /\ last' = [Quiet EXCEPT !.kind = "refreshed", !.before = invites, !.by = caller,
                             !.cause = "fetched", !.snap = guildInvites.list,
                             !.outcome = "success", !.answer = Answer(caller, "success")]
    /\ UNCHANGED <<variant, procVars, guildVars, gateway, joinVars, leaveVars>>

\* faulty RefreshFailed: the cache is cleared before the fetch is known to work
RefreshFailedWipes ==
    /\ Alive /\ refreshPc = "invitesReady" /\ ~guildInvites.ok
    /\ caller \in {"timer", "http"}
    /\ refreshPc' = "idle"
    /\ guildInvites' = NoFetch
    /\ caller' = "none"
    /\ invites' = EmptyMap
    /\ last' = [Quiet EXCEPT !.kind = "refreshed", !.before = invites, !.by = caller,
                             !.cause = "fetchRejected", !.outcome = "failure",
                             !.error = guildInvites.error,
                             !.answer = Answer(caller, "failure")]
    /\ UNCHANGED <<variant, procVars, guildVars, gateway, joinVars, leaveVars>>

\* catch (error) { ...; return { success: false, error: error.message } }
RefreshFailed ==
    /\ Alive /\ refreshPc = "invitesReady" /\ ~guildInvites.ok
    /\ caller \in {"timer", "http"}
    /\ refreshPc' = "idle"
    /\ guildInvites' = NoFetch
    /\ caller' = "none"
    /\ last' = [Quiet EXCEPT !.kind = "refreshed", !.before = invites, !.by = caller,
                             !.cause = "fetchRejected", !.outcome = "failure",
                             !.error = guildInvites.error,
                             !.answer = Answer(caller, "failure")]
    /\ UNCHANGED <<variant, procVars, guildVars, gateway, invites, joinVars, leaveVars>>

\* ------------------------------------------------- the bot: the process
\* faulty Startup: the secret is required like the token and the guild id
StartupSecretRequired ==
    /\ proc = "starting"
    /\ IF ~env.token \/ ~env.guildId \/ env.secret = Undefined
       THEN /\ proc' = "exit1"
            /\ last' = [Quiet EXCEPT !.kind = "exit",
                                     !.cause = IF ~env.token THEN "noToken"
                                               ELSE IF ~env.guildId THEN "noGuildId"
                                               ELSE "noSecret"]
       ELSE /\ proc' = "login"
            /\ last' = Quiet
    /\ UNCHANGED <<variant, env, guildVars, gateway, invites, joinVars, leaveVars,
                   refreshVars>>

\* the module body up to client.login(): process.exit(1) without the token or
\* without the guild id, a warning without the secret
Startup ==
    /\ proc = "starting"
    /\ IF ~env.token
       THEN /\ proc' = "exit1"
            /\ last' = [Quiet EXCEPT !.kind = "exit", !.cause = "noToken"]
       ELSE IF ~env.guildId
       THEN /\ proc' = "exit1"
            /\ last' = [Quiet EXCEPT !.kind = "exit", !.cause = "noGuildId"]
       ELSE /\ proc' = "login"
            /\ last' = Quiet
    /\ UNCHANGED <<variant, env, guildVars, gateway, invites, joinVars, leaveVars,
                   refreshVars>>

\* client.login(DISCORD_BOT_TOKEN).catch(error => { ...; process.exit(1) })
LoginFails ==
    /\ proc = "login"
    /\ proc' = "exit1"
    /\ last' = [Quiet EXCEPT !.kind = "exit", !.cause = "loginFailed"]
    /\ UNCHANGED <<variant, env, guildVars, gateway, invites, joinVars, leaveVars,
                   refreshVars>>

\* client.once('ready'): without the guild it logs and returns, with it it
\* runs up to `await guild.invites.fetch()`
Ready ==
    /\ proc = "login" /\ refreshPc = "idle"
    /\ proc' = "running"
    /\ \E guild \in BOOLEAN :
          IF guild
          THEN /\ refreshPc' = "awaitInvites"
               /\ caller' = "ready"
               /\ last' = Quiet
          ELSE /\ UNCHANGED <<refreshPc, caller>>
               /\ last' = [Quiet EXCEPT !.kind = "ready", !.before = invites,
                                        !.by = "ready", !.cause = "noGuild"]
    /\ UNCHANGED <<variant, env, guildVars, gateway, invites, joinVars, leaveVars,
                   guildInvites>>

\* 'ready': guildInvites.forEach(invite => invites.set(...)); 'Cached n invites'
ReadyApply ==
    /\ Alive /\ refreshPc = "invitesReady" /\ guildInvites.ok /\ caller = "ready"
    /\ invites' = SetAll(invites, guildInvites.list, 1)
    /\ refreshPc' = "idle"
    /\ guildInvites' = NoFetch
    /\ caller' = "none"
    /\ last' = [Quiet EXCEPT !.kind = "ready", !.before = invites, !.by = "ready",
                             !.cause = "fetched", !.snap = guildInvites.list]
    /\ UNCHANGED <<variant, procVars, guildVars, gateway, joinVars, leaveVars>>

\* 'ready': catch (error): 'Cannot fetch invites', 'Bot will still work'
ReadyFailed ==
    /\ Alive /\ refreshPc = "invitesReady" /\ ~guildInvites.ok /\ caller = "ready"
    /\ refreshPc' = "idle"
    /\ guildInvites' = NoFetch
    /\ caller' = "none"
    /\ last' = [Quiet EXCEPT !.kind = "ready", !.before = invites, !.by = "ready",
                             !.cause = "fetchRejected", !.error = guildInvites.error]
    /\ UNCHANGED <<variant, procVars, guildVars, gateway, invites, joinVars, leaveVars>>

\* process.on('SIGINT' / 'SIGTERM'): client.destroy(); process.exit(0)
Signal ==
    /\ Alive
    /\ proc' = "exit0"
    /\ last' = [Quiet EXCEPT !.kind = "exit", !.cause = "signal"]
    /\ UNCHANGED <<variant, env, guildVars, gateway, invites, joinVars, leaveVars,
                   refreshVars>>

\* ------------------------------------------------------- specifications
Next ==
    \/ \E c \in Codes : RemoteCreateInvite(c)
    \/ \E c \in Codes : RemoteDeleteInvite(c)
    \/ \E m \in Members, via \in Codes \cup {NullCode} : RemoteJoin(m, via)
    \/ \E m \in Leavers : RemoteLeave(m)
    \/ InviteCreate
    \/ InviteDelete
    \/ GuildMemberAdd
    \/ \E m \in Members : InvitesFetched(m)
    \/ \E m \in Members : JoinFetchFailed(m)
    \/ \E m \in Members : JoinAttribute(m)
    \/ \E m \in Members : TimerFire(m)
    \/ \E m \in Members : WebhookResponds(m)
    \/ \E m \in Members : WebhookFails(m)
    \/ \E m \in Members : BodyRead(m)
    \/ GuildMemberRemove
    \/ \E m \in Leavers : LeaveResponds(m)
    \/ \E m \in Leavers : LeaveFails(m)
    \/ RefreshStart
    \/ RefreshFetched
    \/ RefreshApply
    \/ RefreshFailed

Spec == Init /\ [][Next]_vars

\* the timer of setTimeout fires once its delay has elapsed
FairSpec == Spec /\ \A m \in Members : WF_vars(TimerFire(m))

\* -------------------------------------------- one attribution pass alone
AttrCodeSet == 1..AttrCodes

\* the ledgers a pass can start from: any codes, any counts
DrawnLedgers == UNION {[S -> 0..MaxUses] : S \in SUBSET AttrCodeSet}

\* the lists a fetch can resolve to: any codes, in any order, any counts
DrawnSnapshots ==
    UNION {{[i \in 1..Cardinality(S) |-> [code |-> f[i], uses |-> u[f[i]]]] :
               f \in Orders(S), u \in [S -> 0..MaxUses]} : S \in SUBSET AttrCodeSet}

\* member 1's handler is about to resume with a fetched list
InitAttr ==
    /\ variant \in Variants
    /\ remoteState = [c \in AttrCodeSet |-> "live"]
    /\ remoteUses = [c \in AttrCodeSet |-> MaxUses]
    /\ gateway = <<>>
    /\ invites \in DrawnLedgers
    /\ pc = [m \in Members |-> IF m = 1 THEN "invitesReady" ELSE "absent"]
    /\ \E l \in DrawnSnapshots :
          newInvites = [m \in Members |-> IF m = 1 THEN FetchOk(l) ELSE NoFetch]
    /\ posts = [m \in Members |-> 0]
    /\ notified = [c \in AttrCodeSet \cup {NullCode} |-> 0]
    /\ timerArmed = [m \in Members |-> FALSE]
    /\ leavePc = [m \in Leavers |-> "none"]
    /\ leavePosts = [m \in Leavers |-> 0]
    /\ refreshPc = "idle"
    /\ guildInvites = NoFetch
    /\ caller = "none"
    /\ env = Configured
    /\ proc = "running"
    /\ last = Quiet

NextAttr == \E m \in Members : JoinAttribute(m)

SpecAttr == InitAttr /\ [][NextAttr]_vars

\* ---------------------------------------- one refresh's cache update alone
\* refreshInviteCache() is about to resume with what its fetch settled to
InitSync ==
    /\ variant = "tracker"
    /\ remoteState = [c \in AttrCodeSet |-> "live"]
    /\ remoteUses = [c \in AttrCodeSet |-> MaxUses]
    /\ gateway = <<>>
    /\ invites \in DrawnLedgers
    /\ pc = [m \in Members |-> "absent"]
    /\ newInvites = [m \in Members |-> NoFetch]
    /\ posts = [m \in Members |-> 0]
    /\ notified = [c \in AttrCodeSet \cup {NullCode} |-> 0]
    /\ timerArmed = [m \in Members |-> FALSE]
    /\ leavePc = [m \in Leavers |-> "none"]
    /\ leavePosts = [m \in Leavers |-> 0]
    /\ refreshPc = "invitesReady"
    /\ guildInvites \in {FetchOk(l) : l \in DrawnSnapshots} \cup {FetchFailed}
    /\ caller \in {"timer", "http"}
    /\ env = Configured
    /\ proc = "running"
    /\ last = Quiet

NextSync == RefreshApply \/ RefreshFailed

SpecSync == InitSync /\ [][NextSync]_vars

\* ------------------------------------- the process from `node bot.js` on
\* the settings process.env can have
Environments ==
    [token : BOOLEAN, guildId : BOOLEAN, secret : {Undefined, SharedSecret}]

\* the guild as the bot finds it: each invite not there, or live with its uses
InitProc ==
    /\ variant \in Variants
    /\ remoteState \in [Codes -> {"none", "live"}]
    /\ remoteUses \in [Codes -> 0..MaxUses]
    /\ \A c \in Codes : remoteState[c] = "none" => remoteUses[c] = 0
    /\ gateway = <<>>
    /\ invites = EmptyMap
    /\ pc = [m \in Members |-> "absent"]
    /\ newInvites = [m \in Members |-> NoFetch]
    /\ posts = [m \in Members |-> 0]
    /\ notified = [c \in Codes \cup {NullCode} |-> 0]
    /\ timerArmed = [m \in Members |-> FALSE]
    /\ leavePc = [m \in Leavers |-> "none"]
    /\ leavePosts = [m \in Leavers |-> 0]
    /\ refreshPc = "idle"
    /\ guildInvites = NoFetch
    /\ caller = "none"
    /\ env \in Environments
    /\ proc = "starting"
    /\ last = Quiet

\* the process from its start to its exit, with the guild's invites as they
\* were found and one member joining and leaving
NextProc ==
    \/ Startup
    \/ LoginFails
    \/ Ready
    \/ ReadyApply
    \/ ReadyFailed
    \/ Signal
    \/ RefreshStart
    \/ \E h \in Headers : RefreshCacheRequest(h)
    \/ RefreshFetched
    \/ RefreshApply
    \/ RefreshFailed
    \/ \E m \in Leavers, via \in Codes \cup {NullCode} : RemoteJoin(m, via)
    \/ \E m \in Leavers : RemoteLeave(m)
    \/ GuildMemberAdd
    \/ \E m \in Leavers : InvitesFetched(m)
    \/ \E m \in Leavers : JoinFetchFailed(m)
    \/ \E m \in Leavers : JoinAttribute(m)
    \/ \E m \in Leavers : TimerFire(m)
    \/ \E m \in Leavers : WebhookResponds(m)
    \/ \E m \in Leavers : WebhookFails(m)
    \/ \E m \in Leavers : BodyRead(m)
    \/ GuildMemberRemove
    \/ \E m \in Leavers : LeaveResponds(m)
    \/ \E m \in Leavers : LeaveFails(m)

SpecProc == InitProc /\ [][NextProc]_vars

\* ------------------------------------------------------------- claims
\* the pass that has just run, its ledger before and its list
Attributed == last.kind = "attributed"
PassCodes == {last.snap[i].code : i \in 1..Len(last.snap)}
AllKnown == PassCodes \subseteq DOMAIN last.before
\* the ledger holds the list's count of every listed code
CaughtUp ==
    \A i \in 1..Len(last.snap) :
        /\ last.snap[i].code \in DOMAIN invites
        /\ invites[last.snap[i].code] = last.snap[i].uses
\* count of code number i of the list greater than the ledger had (absent: base)
Increased(i, base) ==
    last.snap[i].uses >
        (IF last.snap[i].code \in DOMAIN last.before
         THEN last.before[last.snap[i].code] ELSE base)
\* the first listed code that P holds of, NullCode when there is none
FirstCode(P(_)) ==
    IF \E i \in 1..Len(last.snap) : P(i)
    THEN last.snap[CHOOSE i \in 1..Len(last.snap) :
                      P(i) /\ \A j \in 1..(i - 1) : ~P(j)].code
    ELSE NullCode
IncreasedOverLedger(i) == Increased(i, 0)
IsNew(i) == last.snap[i].code \notin DOMAIN last.before

\* C1: when every code of the fetched list is in the ledger, the join goes to
\* the first code in list order whose count is strictly greater than the
\* ledger's (to none when no count is greater), and after the pass the ledger
\* holds the list's count for every listed code.
C1_FirstIncreaseMatches ==
    (Attributed /\ AllKnown) =>
        /\ last.used = FirstCode(IncreasedOverLedger)
        /\ CaughtUp

\* C1 witness: two known codes, the first unchanged, the second one use up:
\* the second is matched
C1_Witness ==
    /\ Attributed /\ AllKnown /\ Len(last.snap) = 2
    /\ last.snap[1].uses = last.before[last.snap[1].code]
    /\ last.snap[2].uses = last.before[last.snap[2].code] + 1
    /\ last.used = last.snap[2].code
    /\ CaughtUp

\* C2 as claimed: a fetched list with a code the ledger lacks gives the join to
\* the first such code, whatever the variant and whatever counts went up, and
\* records its count.
C2_NewInviteAlwaysWins ==
    (Attributed /\ ~AllKnown) =>
        /\ last.used = FirstCode(IsNew)
        /\ CaughtUp

\* C2 as amended: part_000 gives the join to the first code the ledger lacks;
\* both copies of bot.js have no new-invite rule, they take a code the ledger
\* lacks as counted 0 and give the join to the first code in list order whose
\* count is greater than the ledger's, to none when there is no such code.  In
\* every variant the ledger then holds the list's count of every listed code.
C2_NewInviteRuleByVariant ==
    (Attributed /\ ~AllKnown) =>
        /\ last.used = IF variant = "tracker" THEN FirstCode(IsNew)
                       ELSE FirstCode(IncreasedOverLedger)
        /\ CaughtUp

\* C2 witness: part_000, the first listed code is known and one use up, the
\* second is new: the new one is matched
C2_Witness ==
    /\ Attributed /\ variant = "tracker" /\ Len(last.snap) = 2
    /\ ~IsNew(1) /\ IncreasedOverLedger(1) /\ IsNew(2)
    /\ last.used = last.snap[2].code
    /\ CaughtUp

\* C3: when every code of the fetched list is in the ledger with the list's
\* count, no invite is matched and the ledger after the pass is the ledger
\* before it.
C3_NoChangeIsUnknown ==
    (Attributed /\ AllKnown
        /\ \A i \in 1..Len(last.snap) :
              last.before[last.snap[i].code] = last.snap[i].uses) =>
        /\ last.used = NullCode
        /\ invites = last.before

\* C3 witness: two codes with their counts (not all 0) in ledger and list alike
C3_Witness ==
    /\ Attributed /\ AllKnown /\ Len(last.snap) = 2
    /\ \A i \in 1..2 : last.before[last.snap[i].code] = last.snap[i].uses
    /\ last.snap[2].uses > 0
    /\ last.used = NullCode /\ invites = last.before

\* C4 as claimed: a join whose list was fetched and that matched no invite is
\* notified once, with event member_join and invite_code null.
C4_UnknownIsNotified ==
    (Attributed /\ last.used = NullCode) =>
        /\ last.sent
        /\ posts[last.who] = 1
        /\ notified[NullCode] >= 1

RECURSIVE SumOver(_, _)
SumOver(f, S) ==
    IF S = {} THEN 0
    ELSE LET x == CHOOSE y \in S : TRUE IN f[x] + SumOver(f, S \ {x})

\* the joins whose handler has run its attribution pass
PastAttribution == {m \in Members : pc[m] \in {"awaitWebhook", "awaitBody", "done"}}

C6_AtMostOneAttempt ==
    /\ \A m \in Members : posts[m] <= 1
    /\ \A m \in Leavers : leavePosts[m] <= 1
    /\ last.kind = "ended" => (pc[last.who] = "done" /\ posts[last.who] = 1)
    /\ last.kind = "left" => (leavePc[last.who] = "done" /\ leavePosts[last.who] = 1)

\* C6 witness: a join notification has just failed in transport after its one POST
C6_Witness ==
    /\ last.kind = "ended" /\ last.cause = "transport"
    /\ pc[last.who] = "done" /\ posts[last.who] = 1

\* C7 as claimed: a join notification the endpoint never answers ends, with
\* the Timeout outcome and the handler through (nothing escaped its catch
\* clauses); an answer or a transport failure is the other way it stops waiting.
C7_UnansweredTimesOut ==
    \A m \in Members :
        (pc[m] = "awaitWebhook") ~>
            \/ pc[m] = "awaitBody"
            \/ last.kind = "ended" /\ last.who = m /\ last.cause = "transport"
            \/ /\ last.kind = "ended" /\ last.who = m /\ last.cause = "abort"
               /\ last.outcome = "Timeout" /\ pc[m] = "done"

\* the outcome C8 gives to what the endpoint did
ClaimedOutcome(cause, resp) ==
    IF cause = "abort" THEN "Timeout"
    ELSE IF cause = "transport" \/ resp.body = "unreadable" THEN "TransportError"
    ELSE IF ~resp.ok THEN "RemoteRejected"
    ELSE IF resp.body = "success" THEN "Success"
    ELSE "RemoteLogicFailure"

\* C8 as claimed: a join notification ends in the one outcome the endpoint's
\* behaviour decides: Timeout on abort, RemoteRejected on a non-success status,
\* Success or RemoteLogicFailure by the success flag of a success status,
\* TransportError on any other failure.
C8_OutcomeByEndpoint ==
    last.kind = "ended" => last.outcome = ClaimedOutcome(last.cause, last.resp)

\* C9 as claimed: a join whose invite-list fetch failed is still notified once,
\* with invite_code null, and the ledger is left as it was.
C9_FetchFailureIsNotified ==
    last.kind = "joinFailed" =>
        /\ posts[last.who] = 1
        /\ notified[NullCode] >= 1
        /\ invites = last.before

\* C10: a refresh whose invite-list fetch was rejected returns a failure with
\* the rejection's message and has written nothing to the ledger.
C10_FailedRefreshKeepsLedger ==
    (last.kind = "refreshed" /\ last.cause = "fetchRejected") =>
        /\ last.outcome = "failure"
        /\ last.error = FetchFailed.error
        /\ invites = last.before

\* C10 witness: a refresh has just failed on a ledger that holds an invite
C10_Witness ==
    /\ last.kind = "refreshed" /\ last.cause = "fetchRejected"
    /\ last.outcome = "failure" /\ last.error = "Missing Permissions"
    /\ DOMAIN invites # {} /\ invites = last.before

\* a refresh has just written the list it fetched to the ledger
Synced == last.kind = "refreshed" /\ last.cause = "fetched"
\* what the ledger held for a code before the step, 0 when it had no entry
Before(c) == IF c \in DOMAIN last.before THEN last.before[c] ELSE 0
Max(a, b) == IF a >= b THEN a ELSE b

\* C11 as claimed: a refresh leaves every listed code at the greater of its
\* listed count and the count the ledger held, and lowers no stored count.
C11_LedgerKeepsMaximum ==
    Synced =>
        /\ \A i \in 1..Len(last.snap) :
              invites[last.snap[i].code] =
                  Max(last.snap[i].uses, Before(last.snap[i].code))
        /\ \A c \in DOMAIN last.before :
              c \in DOMAIN invites /\ invites[c] >= last.before[c]

\* C12: after an attribution pass, with a match or without, the ledger holds
\* the list's count of every listed code.
C12_PassCatchesUp == Attributed => CaughtUp

\* C12 witness: no invite matched and the ledger had other counts for both
\* listed codes: it holds the list's counts now
C12_Witness ==
    /\ Attributed /\ last.used = NullCode /\ Len(last.snap) = 2
    /\ \A i \in 1..2 : Before(last.snap[i].code) # last.snap[i].uses
    /\ \A i \in 1..2 : invites[last.snap[i].code] = last.snap[i].uses

\* C13: a refresh, whatever it returns, removes no entry of the ledger, and a
\* code its list lacks keeps its count.
C13_RefreshRemovesNothing ==
    last.kind = "refreshed" =>
        \A c \in DOMAIN last.before :
            /\ c \in DOMAIN invites
            /\ c \notin PassCodes => invites[c] = last.before[c]

\* C13 witness: a refresh wrote a list of one code and the ledger still has
\* its other code with its count
C13_Witness ==
    /\ Synced /\ Len(last.snap) = 1
    /\ \E c \in DOMAIN last.before \ PassCodes :
          last.before[c] > 0 /\ c \in DOMAIN invites /\ invites[c] = last.before[c]

\* C14: writing the same list to the ledger a second time changes nothing.
C14_SyncIdempotent == Synced => SetAll(invites, last.snap, 1) = invites

\* C14 witness: a refresh changed the ledger with a list of two codes, and the
\* same list written again leaves it as it is
C14_Witness ==
    /\ Synced /\ Len(last.snap) = 2 /\ invites # last.before
    /\ \E i \in 1..2 : last.snap[i].uses > 0
    /\ SetAll(invites, last.snap, 1) = invites

\* a call of refreshInviteCache() has just returned
Returned == last.kind = "refreshed"

\* C15 as claimed: every call of refreshInviteCache() returns success, or
\* failure with a reason, and POST /refresh-cache answers with what its call
\* returned.
C15_RefreshReturnsOutcome ==
    Returned =>
        /\ \/ last.outcome = "success"
           \/ last.outcome = "failure" /\ last.error # ""
        /\ last.by = "http" => last.answer = last.outcome

\* POST /refresh-cache has just taken a request in
Requested == last.by = "http" /\ last.header # "none"

\* C16 as claimed: a request whose header is missing or is not the shared
\* secret is answered Unauthorized, starts no refresh and leaves the ledger as
\* it was, with the secret configured or not.
C16_OnlySecretRefreshes ==
    (Requested /\ (last.header = Undefined \/ last.header # env.secret)) =>
        /\ last.outcome = "Unauthorized"
        /\ last.kind = "request" /\ last.cause = "rejected"
        /\ invites = last.before

C18_ExitOnlyOnMissingSetting ==
    proc = "exit1" =>
        /\ last.kind = "exit"
        /\ \/ last.cause = "noToken" /\ ~env.token
           \/ last.cause = "noGuildId" /\ ~env.guildId

\* the steps that end a handler, a refresh or a request, failed ones included
HandlerEnded ==
    last.kind \in {"joinFailed", "attributed", "ended", "left", "ready", "refreshed",
                   "request"}

\* C18 as amended: the process exits with a failure code from the startup
\* checks, for the missing token or the missing guild id, and when
\* client.login() is rejected, and from nowhere else: it exits with code 0 on
\* SIGINT or SIGTERM, and a join, a leave, a notification, an invite-list
\* fetch, a refresh or a refresh request, however it ends, leaves it running.
C18_FailureExitAtStartupOrLogin ==
    /\ proc = "exit1" =>
          /\ last.kind = "exit"
          /\ \/ last.cause = "noToken" /\ ~env.token
             \/ last.cause = "noGuildId" /\ env.token /\ ~env.guildId
             \/ last.cause = "loginFailed" /\ env.token /\ env.guildId
    /\ proc = "exit0" => (last.kind = "exit" /\ last.cause = "signal")
    /\ HandlerEnded => Alive

\* C18 witness: every setting is there and the process has exited with
\* code 1 on a rejected login
C18_Witness ==
    /\ proc = "exit1" /\ last.kind = "exit" /\ last.cause = "loginFailed"
    /\ env.token /\ env.guildId

\* C19 as claimed: a matched invite has at least one use in the fetched list.
C19_MatchedInviteWasUsed ==
    (Attributed /\ last.used # NullCode) =>
        \E i \in 1..Len(last.snap) :
            last.snap[i].code = last.used /\ last.snap[i].uses >= 1

\* the bot has handled the inviteDelete event of code c (a deleted code is not
\* created again, and no list fetched after the deletion has it)
DeletionHandled(c) ==
    /\ remoteState[c] = "gone"
    /\ \A i \in 1..Len(gateway) :
          ~(gateway[i].type = "inviteDelete" /\ gateway[i].id = c)

\* C20 as claimed: once the inviteDelete event of a code is handled the ledger
\* has no entry for it, whatever lists fetched before the deletion are still
\* to be written.
C20_DeletedStaysAbsent ==
    \A c \in Codes : DeletionHandled(c) => c \notin DOMAIN invites

\* the ledger a pass started from, without the codes its list lacks
BeforeListed == [c \in DOMAIN last.before \cap PassCodes |-> last.before[c]]

\* C21: a matched code is a code of the fetched list, and the pass matches
\* what it would match from the ledger without the codes the list lacks.
C21_StaleEntriesMatchNothing ==
    Attributed =>
        /\ last.used # NullCode => last.used \in PassCodes
        /\ last.used = Attribute(variant, BeforeListed, last.snap).used

\* C21 witness: the ledger had a code with uses that the list lacks, and the
\* pass matched the listed code
C21_Witness ==
    /\ Attributed /\ Len(last.snap) = 1 /\ last.used = last.snap[1].code
    /\ \E c \in DOMAIN last.before \ PassCodes : last.before[c] > 0
    /\ last.used = Attribute(variant, BeforeListed, last.snap).used

\* the step in which the handler of member m goes from its fetched list to
\* its POST (or to its end)
PassStep(m) ==
    /\ pc[m] = "invitesReady" /\ newInvites[m].ok
    /\ pc'[m] \in {"awaitWebhook", "done"}

====
